---------------------------- MODULE Spec2Model ----------------------------
(***************************************************************************)
(* Model of the archive packer / unpacker of go-zstd-compressor            *)
(* (src/main.go): handleCompress -> compressFiles -> addToTar and          *)
(* handleDecompress -> decompressFile, with the path sanitizers            *)
(* sanitizeTarPath / sanitizeExtractPath / sanitizeDirectoryName and the   *)
(* parts of Go's path/filepath, strings and os packages they call.         *)
(*                                                                         *)
(* A path is a sequence of one-character strings.  The host is goos,       *)
(* "linux" (separator '/') or "windows" (separator '\', with '/' also      *)
(* accepted).  The disk is fs, a function from absolute cleaned paths to   *)
(* nodes.  The zstd codec is the transparent byte-stream transform the     *)
(* code treats it as; an archive file holds the sequence of tar entries.   *)
(* Permission bits are not part of the model.                              *)
(***************************************************************************)
EXTENDS Integers, Sequences, FiniteSets, TLC

\* ------------------------------------------------------------------------
\* strings (Go: package strings, regexp)
\* ------------------------------------------------------------------------

BS == "\\"

\* the least and the greatest element of a non-empty set of integers
Least(S) == CHOOSE i \in S : \A k \in S : i <= k
Greatest(S) == CHOOSE i \in S : \A k \in S : k <= i

\* the first and the last index of s with a character outside cutset
FirstKept(s, cutset) ==
    IF \A i \in DOMAIN s : s[i] \in cutset THEN Len(s) + 1
    ELSE Least({i \in DOMAIN s : s[i] \notin cutset})

LastKept(s, cutset) ==
    IF \A i \in DOMAIN s : s[i] \in cutset THEN 0
    ELSE Greatest({i \in DOMAIN s : s[i] \notin cutset})

\* strings.TrimLeft(s, cutset)
TrimLeft(s, cutset) == SubSeq(s, FirstKept(s, cutset), Len(s))

\* strings.TrimRight(s, cutset)
TrimRight(s, cutset) == SubSeq(s, 1, LastKept(s, cutset))

\* strings.Trim(s, cutset)
Trim(s, cutset) == TrimRight(TrimLeft(s, cutset), cutset)

\* strings.HasPrefix(s, prefix)
HasPrefix(s, prefix) ==
    Len(s) >= Len(prefix) /\ SubSeq(s, 1, Len(prefix)) = prefix

\* strings.HasSuffix(s, suffix)
HasSuffix(s, suffix) ==
    Len(s) >= Len(suffix) /\ SubSeq(s, Len(s) - Len(suffix) + 1, Len(s)) = suffix

\* strings.Contains(s, sub)
Contains(s, sub) ==
    \E i \in 1..(Len(s) - Len(sub) + 1) : SubSeq(s, i, i + Len(sub) - 1) = sub

\* ReplaceAllString of a one-character class by one character
ReplaceChars(s, class, by) ==
    [i \in 1..Len(s) |-> IF s[i] \in class THEN by ELSE s[i]]

\* the character class [<>:"|?*] of sanitizeTarPath and sanitizeExtractPath
InvalidChars == {"<", ">", ":", "\"", "|", "?", "*"}

\* the character class [<>:"|?*\\\/] of sanitizeDirectoryName
InvalidDirChars == InvalidChars \cup {BS, "/"}

\* ------------------------------------------------------------------------
\* path/filepath, for the host goos
\* ------------------------------------------------------------------------

\* filepath.Separator
Separator(goos) == IF goos = "windows" THEN BS ELSE "/"

\* os.IsPathSeparator
IsPathSeparator(goos, c) == c = "/" \/ (goos = "windows" /\ c = BS)

\* the characters VolumeName accepts as a drive letter
Letters ==
    {"a", "b", "c", "d", "e", "f", "g", "h", "i", "j", "k", "l", "m", "n", "o",
     "p", "q", "r", "s", "t", "u", "v", "w", "x", "y", "z",
     "A", "B", "C", "D", "E", "F", "G", "H", "I", "J", "K", "L", "M", "N", "O",
     "P", "Q", "R", "S", "T", "U", "V", "W", "X", "Y", "Z"}

\* length of filepath.VolumeName(path): a drive letter and a colon on
\* windows (UNC volumes do not occur in the paths of this model)
VolumeNameLen(goos, path) ==
    IF goos = "windows" /\ Len(path) >= 2 /\ path[2] = ":" /\ path[1] \in Letters
    THEN 2 ELSE 0

\* filepath.FromSlash
FromSlash(goos, path) ==
    IF goos = "windows" THEN ReplaceChars(path, {"/"}, BS) ELSE path

\* filepath.ToSlash
ToSlash(goos, path) ==
    IF goos = "windows" THEN ReplaceChars(path, {BS}, "/") ELSE path

\* the j-th of the indices seps of separators in a path of length n; 0
\* before the first and n + 1 behind the last
Cut(seps, n, j) ==
    IF j = 0 THEN 0
    ELSE IF j > Cardinality(seps) THEN n + 1
    ELSE CHOOSE i \in seps : Cardinality({k \in seps : k < i}) = j - 1

ElementsAt(path, seps) ==
    [j \in 1..(Cardinality(seps) + 1) |->
        SubSeq(path, Cut(seps, Len(path), j - 1) + 1, Cut(seps, Len(path), j) - 1)]

\* the elements of path between separators, empty elements included
Elements(goos, path) ==
    ElementsAt(path, {i \in DOMAIN path : IsPathSeparator(goos, path[i])})

RECURSIVE CleanElems(_, _, _)
\* the element loop of filepath.Clean: drops empty and "." elements and
\* resolves ".." against the elements kept so far
CleanElems(elems, out, rooted) ==
    IF elems = <<>> THEN out
    ELSE LET e == Head(elems) IN
         IF e = <<>> \/ e = <<".">>
         THEN CleanElems(Tail(elems), out, rooted)
         ELSE IF e = <<".", ".">>
              THEN IF Len(out) > 0 /\ out[Len(out)] # <<".", ".">>
                   THEN CleanElems(Tail(elems), SubSeq(out, 1, Len(out) - 1), rooted)
                   ELSE IF rooted
                        THEN CleanElems(Tail(elems), out, rooted)
                        ELSE CleanElems(Tail(elems), Append(out, e), rooted)
              ELSE CleanElems(Tail(elems), Append(out, e), rooted)

RECURSIVE JoinElems(_, _)
JoinElems(elems, sep) ==
    IF elems = <<>> THEN <<>>
    ELSE IF Len(elems) = 1 THEN Head(elems)
         ELSE Head(elems) \o <<sep>> \o JoinElems(Tail(elems), sep)

\* filepath.VolumeName(path) and what follows it
Volume(goos, path) == SubSeq(path, 1, VolumeNameLen(goos, path))
DropVolume(goos, path) == SubSeq(path, VolumeNameLen(goos, path) + 1, Len(path))

\* path begins with a separator
Rooted(goos, path) == Len(path) > 0 /\ IsPathSeparator(goos, path[1])

\* filepath.Clean put together: the volume, the root separator, the
\* cleaned elements body of rest
CleanBody(goos, vol, rest, rooted, body) ==
    IF rest = <<>> THEN vol \o <<".">>
    ELSE IF rooted THEN vol \o <<Separator(goos)>> \o body
    ELSE IF body = <<>> THEN vol \o <<".">>
    ELSE vol \o body

CleanRooted(goos, vol, rest, rooted) ==
    CleanBody(goos, vol, rest, rooted,
              JoinElems(CleanElems(Elements(goos, rest), <<>>, rooted), Separator(goos)))

CleanRest(goos, vol, rest) == CleanRooted(goos, vol, rest, Rooted(goos, rest))

\* filepath.Clean
Clean(goos, path) == CleanRest(goos, Volume(goos, path), DropVolume(goos, path))

\* filepath.Join of two elements
Join(goos, a, b) ==
    IF a = <<>> /\ b = <<>> THEN <<>>
    ELSE Clean(goos, IF a = <<>> THEN b
                     ELSE IF b = <<>> THEN a
                     ELSE a \o <<Separator(goos)>> \o b)

\* the largest index i in lo..hi with a separator at path[i], or lo - 1
LastSep(goos, path, lo, hi) ==
    IF \A i \in lo..hi : ~IsPathSeparator(goos, path[i]) THEN lo - 1
    ELSE Greatest({i \in lo..hi : IsPathSeparator(goos, path[i])})

\* filepath.Dir
Dir(goos, path) ==
    Volume(goos, path)
        \o Clean(goos, SubSeq(path, VolumeNameLen(goos, path) + 1,
                              LastSep(goos, path, VolumeNameLen(goos, path) + 1, Len(path))))

\* what follows the last separator of path
LastElement(goos, path) == SubSeq(path, LastSep(goos, path, 1, Len(path)) + 1, Len(path))

\* path, or a separator for the empty path
OrSeparator(goos, path) == IF path = <<>> THEN <<Separator(goos)>> ELSE path

\* filepath.Base
Base(goos, path) ==
    IF path = <<>> THEN <<".">>
    ELSE OrSeparator(goos,
             LastElement(goos,
                 DropVolume(goos,
                     TrimRight(path, IF goos = "windows" THEN {"/", BS} ELSE {"/"}))))

\* filepath.IsAbs
IsAbs(goos, path) ==
    LET vl == VolumeNameLen(goos, path)
    IN  IF goos = "windows"
        THEN vl > 0 /\ Len(path) > vl /\ IsPathSeparator(goos, path[vl + 1])
        ELSE Len(path) > 0 /\ path[1] = "/"

RelErr == <<"!", "R", "e", "l">>

RECURSIVE CommonLen(_, _)
CommonLen(a, b) ==
    IF a # <<>> /\ b # <<>> /\ Head(a) = Head(b)
    THEN 1 + CommonLen(Tail(a), Tail(b)) ELSE 0

\* the elements filepath.Rel compares
KeptElements(goos, path) ==
    SelectSeq(Elements(goos, path), LAMBDA e : e # <<>> /\ e # <<".">>)

DotToEmpty(path) == IF path = <<".">> THEN <<>> ELSE path

\* filepath.Rel on what base and target have left behind their common
\* elements
RelLeft(goos, bleft, tleft) ==
    IF bleft # <<>> /\ Head(bleft) = <<".", ".">> THEN RelErr
    ELSE JoinElems([i \in 1..Len(bleft) |-> <<".", ".">>] \o tleft, Separator(goos))

RelElements(goos, be, te) ==
    RelLeft(goos, SubSeq(be, CommonLen(be, te) + 1, Len(be)),
                  SubSeq(te, CommonLen(be, te) + 1, Len(te)))

\* filepath.Rel on cleaned paths split into volume and rest
RelRest(goos, bvol, tvol, b1, t1) ==
    IF (Len(b1) > 0 /\ b1[1] = Separator(goos)) # (Len(t1) > 0 /\ t1[1] = Separator(goos))
          \/ bvol # tvol
    THEN RelErr
    ELSE RelElements(goos, KeptElements(goos, b1), KeptElements(goos, t1))

RelClean(goos, base, targ) ==
    IF targ = base THEN <<".">>
    ELSE RelRest(goos, Volume(goos, base), Volume(goos, targ),
                 DotToEmpty(DropVolume(goos, base)), DropVolume(goos, targ))

\* filepath.Rel; RelErr stands for its error return
Rel(goos, basepath, targpath) ==
    RelClean(goos, Clean(goos, basepath), Clean(goos, targpath))

\* the characters of the model in byte order (sort.Strings in readDirNames)
ByteOrder ==
    <<"*", ".", "/", ":", "A", "C", "W", BS, "_", "a", "b", "c", "d", "e", "f",
      "i", "m", "n", "o", "p", "s", "t", "u", "w", "x", "y", "z">>

CharCode(c) == CHOOSE i \in DOMAIN ByteOrder : ByteOrder[i] = c

RECURSIVE StrLess(_, _)
\* a < b, as Go compares strings
StrLess(a, b) ==
    IF b = <<>> THEN FALSE
    ELSE IF a = <<>> THEN TRUE
    ELSE IF Head(a) = Head(b) THEN StrLess(Tail(a), Tail(b))
    ELSE CharCode(Head(a)) < CharCode(Head(b))

RECURSIVE SortStrings(_)
\* sort.Strings of a set of names
SortStrings(names) ==
    IF names = {} THEN <<>>
    ELSE LET least == CHOOSE n \in names : \A m \in names \ {n} : StrLess(n, m)
         IN  <<least>> \o SortStrings(names \ {least})

\* ------------------------------------------------------------------------
\* the sanitizers of src/main.go
\* ------------------------------------------------------------------------

DirNameLimit == 100

\* sanitizeDirectoryName without the trimming of spaces and dots
sanitizeDirectoryNameNoTrim(name) ==
    LET n1 == ReplaceChars(name, InvalidDirChars, "_")
        n3 == IF n1 = <<>> THEN <<"e", "x", "t", "r", "a", "c", "t", "e", "d">> ELSE n1
    IN  IF Len(n3) > DirNameLimit THEN SubSeq(n3, 1, DirNameLimit) ELSE n3

\* sanitizeDirectoryName
sanitizeDirectoryName(name) ==
    LET n1 == ReplaceChars(name, InvalidDirChars, "_")
        n2 == Trim(n1, {" ", "."})
        n3 == IF n2 = <<>> THEN <<"e", "x", "t", "r", "a", "c", "t", "e", "d">> ELSE n2
    IN  IF Len(n3) > DirNameLimit THEN SubSeq(n3, 1, DirNameLimit) ELSE n3

\* the drive-letter strip shared by sanitizeTarPath and sanitizeExtractPath
StripDrive(path) ==
    IF Len(path) >= 2 /\ path[2] = ":" THEN SubSeq(path, 3, Len(path)) ELSE path

\* sanitizeTarPath without the trimming of leading separators
sanitizeTarPathNoTrim(path) ==
    LET p1 == StripDrive(path)
        p3 == ReplaceChars(p1, {BS}, "/")
    IN  ReplaceChars(p3, InvalidChars, "_")

\* sanitizeTarPath
sanitizeTarPath(path) ==
    LET p1 == StripDrive(path)
        p2 == TrimLeft(p1, {"/", BS})
        p3 == ReplaceChars(p2, {BS}, "/")
    IN  ReplaceChars(p3, InvalidChars, "_")

\* sanitizeExtractPath without its ".." rejection
sanitizeExtractPathNoDotDot(goos, path) ==
    LET p1 == StripDrive(path)
        p2 == TrimLeft(p1, {"/", BS})
        p3 == FromSlash(goos, p2)
    IN  IF p2 = <<>> \/ Trim(p2, {"."}) = <<>> THEN <<>>
        ELSE IF Separator(goos) = BS THEN ReplaceChars(p3, InvalidChars, "_")
        ELSE p3

\* sanitizeExtractPath without the replacement of the illegal characters
sanitizeExtractPathKeepChars(goos, path) ==
    LET p1 == StripDrive(path)
        p2 == TrimLeft(p1, {"/", BS})
    IN  IF p2 = <<>> \/ Trim(p2, {"."}) = <<>> THEN <<>>
        ELSE IF Contains(p2, <<".", ".">>) THEN <<>>
        ELSE FromSlash(goos, p2)

\* sanitizeExtractPath rejecting ".." only where it is a whole segment
sanitizeExtractPathSegments(goos, path) ==
    LET p1 == StripDrive(path)
        p2 == TrimLeft(p1, {"/", BS})
        p3 == FromSlash(goos, p2)
        segments == Elements("windows", p2)
    IN  IF p2 = <<>> \/ Trim(p2, {"."}) = <<>> THEN <<>>
        ELSE IF \E i \in DOMAIN segments : segments[i] = <<".", ".">> THEN <<>>
        ELSE IF Separator(goos) = BS THEN ReplaceChars(p3, InvalidChars, "_")
        ELSE p3

\* sanitizeExtractPath; the empty path is its rejection
sanitizeExtractPath(goos, path) ==
    LET p1 == StripDrive(path)
        p2 == TrimLeft(p1, {"/", BS})
        p3 == FromSlash(goos, p2)
    IN  IF p2 = <<>> \/ Trim(p2, {"."}) = <<>> THEN <<>>
        ELSE IF Contains(p2, <<".", ".">>) THEN <<>>
        ELSE IF Separator(goos) = BS THEN ReplaceChars(p3, InvalidChars, "_")
        ELSE p3

\* ------------------------------------------------------------------------
\* the disk (package os)
\* ------------------------------------------------------------------------

\* a node of the disk
DirNode == [kind |-> "dir", data |-> <<>>]
FileNode(data) == [kind |-> "file", data |-> data]
\* a regular file os.Open refuses
LockedNode(data) == [kind |-> "locked", data |-> data]

\* the volume root and the working directory of the process (os.Getwd)
VolRoot(goos) == IF goos = "windows" THEN <<"C", ":", BS>> ELSE <<"/">>
Cwd(goos) == VolRoot(goos) \o <<"w">>

\* the absolute path the OS resolves a path argument to
Resolve(goos, path) ==
    IF IsAbs(goos, path) THEN Clean(goos, path)
    ELSE IF goos = "windows" /\ Len(path) > 0 /\ IsPathSeparator(goos, path[1])
         THEN <<"C", ":">> \o Clean(goos, path)
         ELSE Join(goos, Cwd(goos), path)

\* p lies strictly below dir
Below(goos, dir, p) ==
    LET d == IF dir = VolRoot(goos) THEN dir ELSE dir \o <<Separator(goos)>>
    IN  p # dir /\ HasPrefix(p, d)

\* os.Stat(path) succeeds
Exists(f, p) == p \in DOMAIN f

\* os.RemoveAll(path)
RemoveAll(goos, f, p) ==
    [q \in {r \in DOMAIN f : r # p /\ ~Below(goos, p, r)} |-> f[q]]

\* f with node n at path p
Put(f, p, n) == [q \in DOMAIN f \cup {p} |-> IF q = p THEN n ELSE f[q]]

RECURSIVE MkdirAll(_, _, _)
\* os.MkdirAll(path): [ok, fs]; fails where an existing file is in the way
MkdirAll(goos, f, p) ==
    IF p \in DOMAIN f THEN [ok |-> f[p].kind = "dir", fs |-> f]
    ELSE LET r == MkdirAll(goos, f, Dir(goos, p))
         IN  IF r.ok THEN [ok |-> TRUE, fs |-> Put(r.fs, p, DirNode)] ELSE r

\* what a write of data at offset 0 leaves in a file that held old
\* (the file is opened without O_TRUNC)
WriteAtStart(old, data) == data \o SubSeq(old, Len(data) + 1, Len(old))

\* os.OpenFile(path, O_CREATE|O_RDWR) followed by io.Copy of data and
\* Close: [ok, fs]; opening a directory for writing fails
OpenFileAndCopy(f, p, data) ==
    IF p \in DOMAIN f
    THEN IF f[p].kind = "dir" THEN [ok |-> FALSE, fs |-> f]
         ELSE [ok |-> TRUE, fs |-> Put(f, p, FileNode(WriteAtStart(f[p].data, data)))]
    ELSE [ok |-> TRUE, fs |-> Put(f, p, FileNode(data))]

\* ------------------------------------------------------------------------
\* the container stream (archive/tar through the zstd codec)
\* ------------------------------------------------------------------------

\* header.Typeflag: tar.TypeReg, tar.TypeDir, and tar.TypeSymlink standing
\* for every flag the extraction switch has no case for
TypeReg == "reg"
TypeDir == "dir"
TypeSymlink == "symlink"

\* what tarReader.Next() and the reads of the payload give for one entry;
\* cut: the stream ends inside the payload, after the bytes of data
Entry(name, typeflag, data) ==
    [name |-> name, typeflag |-> typeflag, data |-> data, cut |-> FALSE]

CutEntry(name, data) ==
    [name |-> name, typeflag |-> TypeReg, data |-> data, cut |-> TRUE]

\* a place of the stream where tarReader.Next() returns an error
ErrHeader == "ErrHeader"
BadHeader == Entry(<<>>, ErrHeader, <<>>)

\* ------------------------------------------------------------------------
\* bounds and inputs
\* ------------------------------------------------------------------------

\* longest stored path of the exhaustively enumerated one-entry archives
MaxNameLen == 4
\* most entries of an archive built from the listed entries
MaxEntries == 3
\* most requests served in a behaviour that serves several
MaxRuns == 2

GOOS == {"linux", "windows"}

\* the characters of the enumerated stored paths
NameChars == {"a", ".", "/", BS, ":"}

ShortNames == UNION {[1..k -> NameChars] : k \in 1..MaxNameLen}

\* stored paths the specification names
TraversalUnix == <<".", ".", "/", ".", ".", "/", "e", "t", "c", "/", "p", "a", "s", "s", "w", "d">>
TraversalBackslash == <<".", ".", BS, ".", ".", BS, "x">>
AbsolutePasswd == <<"/", "e", "t", "c", "/", "p", "a", "s", "s", "w", "d">>
DrivePath == <<"C", ":", BS, "W", "i", "n", "d", "o", "w", "s", BS, "x", ".", "t", "x", "t">>
IllegalCharsName == <<"a", ":", "b", "*", "c", ".", "t", "x", "t">>
IllegalInsideName == <<"a", "b", ":", "c", "*", "d">>
\* two dots inside a file name and inside a directory name
DotsInName == <<"a", ".", ".", "b", ".", "t", "x", "t">>
DotsInDir == <<"d", "i", "r", "/", "v", "1", ".", ".", "2", "/", "x">>

NamedPaths ==
    {TraversalUnix, TraversalBackslash, AbsolutePasswd, DrivePath,
     IllegalCharsName, IllegalInsideName, DotsInName, DotsInDir}

\* the entries the multi-entry archives are built from: files and
\* directories that repeat or collide, a traversal path, the root itself

ListedEntries ==
    {Entry(<<"a">>, TypeReg, <<1, 2>>),
     Entry(<<"a">>, TypeReg, <<3>>),
     Entry(<<"a">>, TypeDir, <<>>),
     Entry(<<"d">>, TypeReg, <<3>>),
     Entry(<<"d">>, TypeDir, <<>>),
     Entry(<<"d", "/", "a">>, TypeReg, <<4, 5>>),
     Entry(<<"d", "/", "a">>, TypeSymlink, <<>>),
     Entry(<<".", ".", "/", "a">>, TypeReg, <<6, 7>>),
     Entry(<<".", "/">>, TypeReg, <<8>>),
     Entry(<<".", "/">>, TypeDir, <<>>)}

ListedNames == {e.name : e \in ListedEntries}

\* the archives a behaviour starts with: every one-entry archive over the
\* short and the named paths (extracted where nothing lies at the output
\* directory), and every archive of listed entries
ForeignArchives ==
    {<<Entry(n, TypeReg, <<1>>)>> : n \in ShortNames \cup NamedPaths}
        \cup UNION {[1..k -> ListedEntries] : k \in 0..MaxEntries}

ArchiveName == <<"i", "n", ".", "z", "s", "t">>
OutName == <<"o", "u", "t">>

\* what lies at the requested output directory before the first request:
\* nothing, a plain file, or the leftovers of an earlier extraction
Priors == {"none", "file", "leftovers"}

InitialDisk(goos, prior) ==
    LET cwd  == Cwd(goos)
        out  == Join(goos, cwd, OutName)
        base == (VolRoot(goos) :> DirNode) @@ (cwd :> DirNode)
    IN  CASE prior = "none" -> base
          [] prior = "file" -> base @@ (out :> FileNode(<<9>>))
          [] OTHER -> base @@ (out :> DirNode)
                           @@ (Join(goos, out, <<"a">>) :> FileNode(<<7, 8, 9>>))
                           @@ (Join(goos, out, <<"z">>) :> FileNode(<<7>>))

\* ------------------------------------------------------------------------
\* state
\* ------------------------------------------------------------------------

VARIABLES
    goos,           \* the host the binary was built for
    fs,             \* the disk
    archives,       \* the archive files: name -> sequence of entries
    pc,             \* "idle", or "extract" inside decompressFile's loop
    archiveFile,    \* decompressFile: the archive being read
    fullOutputDir,  \* decompressFile: the destination root
    tarReader,      \* decompressFile: the entries not yet read
    fileCount,      \* decompressFile: files extracted so far
    resp,           \* the last response sent (sendResponse)
    touched,        \* the paths the current call created or wrote for entries
    outcomes,       \* per entry read by the current call: what was done
    runs,           \* the finished calls of decompressFile, in order
    budget,         \* the requests this behaviour may still serve
    outputFile,     \* compressFiles: the archive being written
    pending,        \* compressFiles: the walk callbacks still to come
    totalSize,      \* compressFiles: bytes of file content added so far
    opened,         \* the source files the current call opened
    visited,        \* per header written by the current call: its root and path
    packed,         \* the last compress request that reached compressFiles
    packBudget,     \* the compress requests this behaviour may still serve
    headerNames,    \* addToTar: values of header.Name still to be sanitized
    storedNames     \* addToTar: per sanitized header.Name, what it was and is

vars == <<goos, fs, archives, pc, archiveFile, fullOutputDir, tarReader, fileCount, resp,
          touched, outcomes, runs, budget, outputFile, pending, totalSize,
          opened, visited, packed, packBudget, headerNames, storedNames>>

packVars == <<outputFile, pending, totalSize, opened, visited, packed>>
unpackVars == <<archiveFile, fullOutputDir, tarReader, fileCount, touched, outcomes, runs>>
nameVars == <<headerNames, storedNames>>

\* a response: Response.Success and Message, and of Response.Data the
\* extractedFiles and outputDir, or the originalSize and outputFile;
\* source: the file a "Compression failed" message names
Response(op, success, message, count, dir, size, file) ==
    [op |-> op, success |-> success, message |-> message, count |-> count,
     outputDir |-> dir, originalSize |-> size, outputFile |-> file,
     source |-> <<>>]

NoResp == Response("none", FALSE, "", 0, <<>>, 0, <<>>)

\* the part of the disk below root, by path relative to root
Tree(os, f, root) ==
    {<<SubSeq(p, Len(root) + 2, Len(p)), f[p].kind, f[p].data>> :
        p \in {q \in DOMAIN f : Below(os, root, q)}}

RunRecord(archive, success, count, root, f) ==
    [archive |-> archive, outputDir |-> root, success |-> success,
     count |-> count, tree |-> IF success THEN Tree(goos, f, root) ELSE {}]

\* ------------------------------------------------------------------------
\* decompression
\* ------------------------------------------------------------------------

\* strings.TrimSuffix(s, ".zst") guarded by HasSuffix
TrimZst(s) ==
    IF HasSuffix(s, <<".", "z", "s", "t">>) THEN SubSeq(s, 1, Len(s) - 4) ELSE s

\* handleDecompress: the output directory name handed to decompressFile
OutputDirOf(os, req) ==
    LET named == IF req.OutputDir = <<>>
                 THEN sanitizeDirectoryName(TrimZst(Base(os, req.Archive)))
                          \o <<"_", "e", "x", "t", "r", "a", "c", "t", "e", "d">>
                 ELSE sanitizeDirectoryName(req.OutputDir)
    IN  Base(os, named)

\* decompressFile creating the destination root without removing what is there
ClearRootKeep(os, f, root) == MkdirAll(os, f, root)

\* decompressFile up to its loop: the destination root cleared and created
ClearRoot(os, f, root) ==
    MkdirAll(os, IF Exists(f, root) THEN RemoveAll(os, f, root) ELSE f, root)

\* the loop body with neither the sanitizer nor the containment check
ExtractStepUnchecked(os, f, root, h) ==
    LET targetPath == Join(os, root, FromSlash(os, h.name))
        mk         == MkdirAll(os, f, Dir(os, targetPath))
        md         == MkdirAll(os, mk.fs, targetPath)
        op         == OpenFileAndCopy(mk.fs, targetPath, h.data)
        res(st, g, n, w) == [status |-> st, fs |-> g, counted |-> n, wrote |-> w]
    IN  IF ~mk.ok THEN res("error", f, 0, {})
        ELSE IF h.typeflag = TypeDir
             THEN IF md.ok THEN res("dir", md.fs, 0, {})
                  ELSE res("error", mk.fs, 0, {})
        ELSE IF h.typeflag = TypeReg
             THEN IF op.ok THEN res("file", op.fs, 1, {targetPath})
                  ELSE res("error", mk.fs, 0, {})
        ELSE res("ignored", mk.fs, 0, {})

\* the loop body returning an error for a rejected entry instead of skipping it
ExtractStepStrict(os, f, root, h) ==
    LET cleanName  == sanitizeExtractPath(os, h.name)
        targetPath == Join(os, root, cleanName)
        inside     == HasPrefix(targetPath, Clean(os, root) \o <<Separator(os)>>)
        mk         == MkdirAll(os, f, Dir(os, targetPath))
        md         == MkdirAll(os, mk.fs, targetPath)
        op         == OpenFileAndCopy(mk.fs, targetPath, h.data)
        res(st, g, n, w) == [status |-> st, fs |-> g, counted |-> n, wrote |-> w]
    IN  IF cleanName = <<>> \/ ~inside \/ ~mk.ok THEN res("error", f, 0, {})
        ELSE IF h.typeflag = TypeDir
             THEN IF md.ok THEN res("dir", md.fs, 0, {})
                  ELSE res("error", mk.fs, 0, {})
        ELSE IF h.typeflag = TypeReg
             THEN IF op.ok THEN res("file", op.fs, 1, {targetPath})
                  ELSE res("error", mk.fs, 0, {})
        ELSE res("ignored", mk.fs, 0, {})

\* the loop body without the containment check behind the sanitizer
ExtractStepUncontained(os, f, root, h) ==
    LET cleanName  == sanitizeExtractPath(os, h.name)
        targetPath == Join(os, root, cleanName)
        mk         == MkdirAll(os, f, Dir(os, targetPath))
        md         == MkdirAll(os, mk.fs, targetPath)
        op         == OpenFileAndCopy(mk.fs, targetPath, h.data)
        res(st, g, n, w) == [status |-> st, fs |-> g, counted |-> n, wrote |-> w]
    IN  IF h.typeflag = ErrHeader THEN res("error", f, 0, {})
        ELSE IF cleanName = <<>> THEN res("skipped", f, 0, {})
        ELSE IF ~mk.ok THEN res("error", f, 0, {})
        ELSE IF h.typeflag = TypeDir
             THEN IF md.ok THEN res("dir", md.fs, 0, {})
                  ELSE res("error", mk.fs, 0, {})
        ELSE IF h.typeflag = TypeReg
             THEN IF ~op.ok THEN res("error", mk.fs, 0, {})
                  ELSE IF h.cut THEN res("error", op.fs, 0, {targetPath})
                  ELSE res("file", op.fs, 1, {targetPath})
        ELSE res("ignored", mk.fs, 0, {})

\* the loop body going on to the next entry after an error
ExtractStepSkipErrors(os, f, root, h) ==
    LET cleanName  == sanitizeExtractPath(os, h.name)
        targetPath == Join(os, root, cleanName)
        inside     == HasPrefix(targetPath, Clean(os, root) \o <<Separator(os)>>)
        mk         == MkdirAll(os, f, Dir(os, targetPath))
        md         == MkdirAll(os, mk.fs, targetPath)
        op         == OpenFileAndCopy(mk.fs, targetPath, h.data)
        res(st, g, n, w) == [status |-> st, fs |-> g, counted |-> n, wrote |-> w]
    IN  IF h.typeflag = ErrHeader THEN res("skipped", f, 0, {})
        ELSE IF cleanName = <<>> THEN res("skipped", f, 0, {})
        ELSE IF ~inside THEN res("skipped", f, 0, {})
        ELSE IF ~mk.ok THEN res("skipped", f, 0, {})
        ELSE IF h.typeflag = TypeDir
             THEN IF md.ok THEN res("dir", md.fs, 0, {})
                  ELSE res("skipped", mk.fs, 0, {})
        ELSE IF h.typeflag = TypeReg
             THEN IF ~op.ok THEN res("skipped", mk.fs, 0, {})
                  ELSE IF h.cut THEN res("skipped", op.fs, 0, {targetPath})
                  ELSE res("file", op.fs, 1, {targetPath})
        ELSE res("ignored", mk.fs, 0, {})

\* one iteration of decompressFile's loop on header h:
\* [status, fs, counted, wrote]
ExtractStep(os, f, root, h) ==
    LET cleanName  == sanitizeExtractPath(os, h.name)
        targetPath == Join(os, root, cleanName)
        inside     == HasPrefix(targetPath, Clean(os, root) \o <<Separator(os)>>)
        mk         == MkdirAll(os, f, Dir(os, targetPath))
        md         == MkdirAll(os, mk.fs, targetPath)
        op         == OpenFileAndCopy(mk.fs, targetPath, h.data)
        res(st, g, n, w) == [status |-> st, fs |-> g, counted |-> n, wrote |-> w]
    IN  IF h.typeflag = ErrHeader THEN res("error", f, 0, {})
        ELSE IF cleanName = <<>> THEN res("skipped", f, 0, {})
        ELSE IF ~inside THEN res("skipped", f, 0, {})
        ELSE IF ~mk.ok THEN res("error", f, 0, {})
        ELSE IF h.typeflag = TypeDir
             THEN IF md.ok THEN res("dir", md.fs, 0, {})
                  ELSE res("error", mk.fs, 0, {})
        ELSE IF h.typeflag = TypeReg
             THEN IF ~op.ok THEN res("error", mk.fs, 0, {})
                  ELSE IF h.cut THEN res("error", op.fs, 0, {targetPath})
                  ELSE res("file", op.fs, 1, {targetPath})
        ELSE res("ignored", mk.fs, 0, {})

\* a name no archive on disk has
MissingArchive == <<"n", "o", ".", "z", "s", "t">>

\* the DecompressRequest bodies: the archive is one on disk, not named, or,
\* on a disk that holds an archive, one that is missing; the output
\* directory is named or left empty
Requests ==
    [Archive : DOMAIN archives \cup {<<>>}
                   \cup (IF DOMAIN archives = {} THEN {} ELSE {MissingArchive}),
     OutputDir : {<<>>, OutName}]

FailResp(op, message) == Response(op, FALSE, message, 0, <<>>, 0, <<>>)

\* handleDecompress and decompressFile up to the first header
DecompressBegin(req) ==
    /\ pc = "idle"
    /\ budget > 0
    /\ budget' = budget - 1
    /\ touched' = {}
    /\ outcomes' = <<>>
    /\ fileCount' = 0
    /\ UNCHANGED <<goos, archives, packBudget>>
    /\ UNCHANGED packVars
    /\ UNCHANGED nameVars
    /\ IF req.Archive = <<>>
       THEN /\ resp' = FailResp("decompress", "No archive file specified")
            /\ UNCHANGED <<fs, pc, archiveFile, fullOutputDir, tarReader, runs>>
       ELSE \E root \in {Join(goos, Cwd(goos), OutputDirOf(goos, req))} :
            \E mk \in {ClearRoot(goos, fs, root)} :
               /\ fs' = mk.fs
               /\ IF ~mk.ok \/ req.Archive \notin DOMAIN archives
                  THEN /\ resp' = FailResp("decompress", "Decompression failed")
                       /\ runs' = Append(runs, RunRecord(req.Archive, FALSE, 0, root, mk.fs))
                       /\ UNCHANGED <<pc, archiveFile, fullOutputDir, tarReader>>
                  ELSE /\ archiveFile' = req.Archive
                       /\ fullOutputDir' = root
                       /\ tarReader' = archives[req.Archive]
                       /\ pc' = "extract"
                       /\ resp' = NoResp
                       /\ UNCHANGED runs

\* one pass of the extraction loop: tarReader.Next() and the entry's handling
ExtractEntry ==
    /\ pc = "extract"
    /\ tarReader # <<>>
    /\ \E r \in {ExtractStep(goos, fs, fullOutputDir, Head(tarReader))} :
           /\ fs' = r.fs
           /\ touched' = touched \cup r.wrote \cup (DOMAIN r.fs \ DOMAIN fs)
           /\ outcomes' = Append(outcomes, r.status)
           /\ tarReader' = Tail(tarReader)
           /\ IF r.status = "error"
              THEN /\ pc' = "idle"
                   /\ resp' = FailResp("decompress", "Decompression failed")
                   /\ runs' = Append(runs, RunRecord(archiveFile, FALSE, 0, fullOutputDir, r.fs))
                   /\ UNCHANGED fileCount
              ELSE /\ fileCount' = fileCount + r.counted
                   /\ UNCHANGED <<pc, resp, runs>>
    /\ UNCHANGED <<goos, archives, archiveFile, fullOutputDir, budget, packBudget>>
    /\ UNCHANGED packVars
    /\ UNCHANGED nameVars

\* io.EOF: decompressFile returns and handleDecompress answers
DecompressEnd ==
    /\ pc = "extract"
    /\ tarReader = <<>>
    /\ pc' = "idle"
    /\ resp' = Response("decompress", TRUE, "Decompression completed",
                         fileCount, fullOutputDir, 0, <<>>)
    /\ runs' = Append(runs, RunRecord(archiveFile, TRUE, fileCount, fullOutputDir, fs))
    /\ UNCHANGED <<goos, fs, archives, archiveFile, fullOutputDir, tarReader, fileCount,
                   touched, outcomes, budget, packBudget>>
    /\ UNCHANGED packVars
    /\ UNCHANGED nameVars

\* ------------------------------------------------------------------------
\* compression
\* ------------------------------------------------------------------------

\* most source roots of one compress request
MaxRoots == 2
\* longest name of the file whose name varies in the source tree
MaxLeafLen == 2

Docs == <<"d", "o", "c", "s">>
FTxt == <<"f", ".", "t", "x", "t">>

\* the names the varying file may have on the host: windows refuses ':' 
LeafNames(os) ==
    {n \in UNION {[1..k -> {"a", ":"}] : k \in 1..MaxLeafLen} :
        os = "windows" => \A i \in DOMAIN n : n[i] # ":"}

\* the disk before a compression: below the working directory a file
\* f.txt and a directory docs holding a file named leaf, an empty
\* directory and a directory with a zero-length file
SourceDisk(os, leaf) ==
    LET cwd  == Cwd(os)
        docs == Join(os, cwd, Docs)
        sub  == Join(os, docs, <<"s", "u", "b">>)
    IN  (VolRoot(os) :> DirNode) @@ (cwd :> DirNode)
            @@ (Join(os, cwd, FTxt) :> FileNode(<<3>>))
            @@ (docs :> DirNode)
            @@ (Join(os, docs, leaf) :> FileNode(<<1, 2>>))
            @@ (Join(os, docs, <<"e", "m", "p", "t", "y">>) :> DirNode)
            @@ (sub :> DirNode)
            @@ (Join(os, sub, <<"z">>) :> FileNode(<<>>))

\* the forms a source root is given in: a directory by its name, with a
\* trailing separator, by its absolute path; a single file by its name, by
\* its absolute path; a path that does not exist
RootForms(os) ==
    {Docs,
     Docs \o <<"/">>,
     Cwd(os) \o <<Separator(os)>> \o Docs,
     FTxt,
     Cwd(os) \o <<Separator(os)>> \o FTxt,
     <<"m", "i", "s", "s">>}

\* the CompressRequest bodies
CompressRequests ==
    [Files : UNION {[1..k -> RootForms(goos)] : k \in 0..MaxRoots},
     Output : {<<>>, <<"i", "n">>}]

\* the names in directory dir (os.ReadDir)
DirNames(os, f, dir) ==
    {Base(os, p) : p \in {q \in DOMAIN f : q # dir /\ Dir(os, q) = dir}}

RECURSIVE WalkFrom(_, _, _)
RECURSIVE WalkNames(_, _, _, _)
\* filepath.Walk's walk: path, then its entries in sorted order
WalkFrom(os, f, path) ==
    IF f[Resolve(os, path)].kind = "dir"
    THEN <<path>> \o WalkNames(os, f, path, SortStrings(DirNames(os, f, Resolve(os, path))))
    ELSE <<path>>

WalkNames(os, f, path, names) ==
    IF names = <<>> THEN <<>>
    ELSE WalkFrom(os, f, Join(os, path, Head(names)))
             \o WalkNames(os, f, path, Tail(names))

\* the callbacks of filepath.Walk(filePath, ...): one per path, or a
\* single one carrying the error when filePath cannot be statted
Walk(os, f, filePath) ==
    IF Resolve(os, filePath) \notin DOMAIN f
    THEN <<[root |-> filePath, path |-> filePath, err |-> TRUE]>>
    ELSE LET paths == WalkFrom(os, f, filePath)
         IN  [i \in DOMAIN paths |-> [root |-> filePath, path |-> paths[i], err |-> FALSE]]

RECURSIVE WalkAll(_, _, _)
WalkAll(os, f, files) ==
    IF files = <<>> THEN <<>>
    ELSE Walk(os, f, Head(files)) \o WalkAll(os, f, Tail(files))

\* addToTar: header.Name for path met in the walk of filePath
HeaderName(os, filePath, path) ==
    LET relPath == Rel(os, Dir(os, filePath), path)
        name    == IF filePath # path
                   THEN Join(os, Base(os, filePath), relPath)
                   ELSE path
    IN  sanitizeTarPath(ToSlash(os, name))

\* the walk callback returning nil where it meets an error
AddToTarStepGoOn(os, f, item) ==
    LET node == f[Resolve(os, item.path)]
        none == [ok |-> TRUE, entry |-> Entry(<<>>, TypeReg, <<>>), opened |-> {}, size |-> 0,
                 header |-> FALSE]
    IN  IF item.err THEN none
        ELSE IF item.root # item.path /\ Rel(os, Dir(os, item.root), item.path) = RelErr
        THEN none
        ELSE IF node.kind = "dir"
        THEN [ok |-> TRUE, entry |-> Entry(HeaderName(os, item.root, item.path), TypeDir, <<>>),
              opened |-> {}, size |-> 0, header |-> TRUE]
        ELSE IF node.kind = "locked"
        THEN [ok |-> TRUE, entry |-> CutEntry(HeaderName(os, item.root, item.path), <<>>),
              opened |-> {}, size |-> 0, header |-> TRUE]
        ELSE [ok |-> TRUE,
              entry |-> Entry(HeaderName(os, item.root, item.path), TypeReg, node.data),
              opened |-> {item.path}, size |-> Len(node.data), header |-> TRUE]

\* one callback of addToTar's walk: [ok, entry, opened, size, header];
\* header: the entry's header was written, also where ok is FALSE
AddToTarStep(os, f, item) ==
    LET node == f[Resolve(os, item.path)]
        bad  == [ok |-> FALSE, entry |-> Entry(<<>>, TypeReg, <<>>), opened |-> {}, size |-> 0,
                 header |-> FALSE]
    IN  IF item.err THEN bad
        ELSE IF item.root # item.path /\ Rel(os, Dir(os, item.root), item.path) = RelErr
        THEN bad
        ELSE IF node.kind = "dir"
        THEN [ok |-> TRUE, entry |-> Entry(HeaderName(os, item.root, item.path), TypeDir, <<>>),
              opened |-> {}, size |-> 0, header |-> TRUE]
        ELSE IF node.kind = "locked"
        THEN [ok |-> FALSE, entry |-> CutEntry(HeaderName(os, item.root, item.path), <<>>),
              opened |-> {}, size |-> 0, header |-> TRUE]
        ELSE [ok |-> TRUE,
              entry |-> Entry(HeaderName(os, item.root, item.path), TypeReg, node.data),
              opened |-> {item.path}, size |-> Len(node.data), header |-> TRUE]

\* filepath.Ext's suffix removed from a base name that holds a dot
TrimExt(base) ==
    LET dots == {i \in DOMAIN base : base[i] = "."}
    IN  IF dots = {} THEN base
        ELSE SubSeq(base, 1, (CHOOSE i \in dots : \A k \in dots : k <= i) - 1)

\* handleCompress: the output file name handed to compressFiles
OutputOf(os, req) ==
    LET zst  == <<".", "z", "s", "t">>
        name == IF req.Output # <<>> THEN req.Output
                ELSE IF Len(req.Files) = 1 THEN TrimExt(Base(os, req.Files[1])) \o zst
                ELSE <<"a", "r", "c", "h", "i", "v", "e">> \o zst
    IN  IF HasSuffix(name, zst) THEN name ELSE name \o zst

\* handleCompress without its check of the file list
NoFilesSelectedNever(req) == FALSE

\* handleCompress: len(req.Files) == 0
NoFilesSelected(req) == Len(req.Files) = 0

\* handleCompress, and compressFiles up to the first walk callback
CompressBegin(req) ==
    /\ pc = "idle"
    /\ packBudget > 0
    /\ packBudget' = packBudget - 1
    /\ UNCHANGED <<goos, fs, budget>>
    /\ UNCHANGED unpackVars
    /\ UNCHANGED nameVars
    /\ IF NoFilesSelected(req)
       THEN /\ resp' = FailResp("compress", "No files selected")
            /\ UNCHANGED <<archives, pc>>
            /\ UNCHANGED packVars
       ELSE \E out \in {OutputOf(goos, req)} :
               /\ archives' = [n \in DOMAIN archives \cup {out} |-> IF n = out THEN <<>> ELSE archives[n]]
               /\ outputFile' = out
               /\ pending' = WalkAll(goos, fs, req.Files)
               /\ totalSize' = 0
               /\ opened' = {}
               /\ visited' = <<>>
               /\ pc' = "walk"
               /\ resp' = NoResp
               /\ packed' = [files |-> req.Files, ok |-> FALSE]

\* one callback of filepath.Walk in addToTar
AddEntry ==
    /\ pc = "walk"
    /\ pending # <<>>
    /\ \E r \in {AddToTarStep(goos, fs, Head(pending))} :
          IF r.ok
          THEN /\ archives' = [archives EXCEPT ![outputFile] = Append(@, r.entry)]
               /\ visited' = Append(visited, Head(pending))
               /\ opened' = opened \cup r.opened
               /\ totalSize' = totalSize + r.size
               /\ pending' = Tail(pending)
               /\ UNCHANGED <<pc, resp>>
          ELSE /\ pc' = "idle"
               /\ resp' = [FailResp("compress", "Compression failed")
                               EXCEPT !.source = Head(pending).root]
               /\ archives' = IF r.header
                               THEN [archives EXCEPT ![outputFile] = Append(@, r.entry)]
                               ELSE archives
               /\ UNCHANGED <<visited, opened, totalSize, pending>>
    /\ UNCHANGED <<goos, fs, budget, packBudget, outputFile, packed>>
    /\ UNCHANGED unpackVars
    /\ UNCHANGED nameVars

\* the walks are over: compressFiles returns its statistics and
\* handleCompress answers
CompressEnd ==
    /\ pc = "walk"
    /\ pending = <<>>
    /\ pc' = "idle"
    /\ resp' = Response("compress", TRUE, "Compression completed successfully",
                        0, <<>>, totalSize, outputFile)
    /\ packed' = [packed EXCEPT !.ok = TRUE]
    /\ UNCHANGED <<goos, fs, archives, budget, packBudget, outputFile, pending,
                   totalSize, opened, visited>>
    /\ UNCHANGED unpackVars
    /\ UNCHANGED nameVars

\* longest path handed to sanitizeTarPath on its own
MaxPathLen == 4

\* the characters of those paths: a letter, a drive letter, both
\* separators, the drive colon and another character the container refuses
PathChars == {"a", "C", "/", BS, ":", "*"}

TarPaths == UNION {[1..k -> PathChars] : k \in 0..MaxPathLen}

\* addToTar's line header.Name = sanitizeTarPath(filepath.ToSlash(header.Name))
SanitizeHeader ==
    /\ pc = "idle"
    /\ headerNames # <<>>
    /\ storedNames' = Append(storedNames,
                              [given |-> Head(headerNames),
                               name  |-> sanitizeTarPath(ToSlash(goos, Head(headerNames)))])
    /\ headerNames' = Tail(headerNames)
    /\ UNCHANGED <<goos, fs, archives, pc, resp, budget, packBudget>>
    /\ UNCHANGED packVars
    /\ UNCHANGED unpackVars

\* the names of the files in docs of which one may be locked
DocFiles == {<<"a">>, <<"b">>, <<"c">>}

\* the disk before a compression that may fail: f.txt and, in docs, the
\* files a, b and c, the one named locked not to be opened
LockedDisk(os, locked) ==
    LET cwd  == Cwd(os)
        docs == Join(os, cwd, Docs)
    IN  (VolRoot(os) :> DirNode) @@ (cwd :> DirNode)
            @@ (Join(os, cwd, FTxt) :> FileNode(<<3>>))
            @@ (docs :> DirNode)
            @@ [p \in {Join(os, docs, n) : n \in DocFiles} |->
                   IF p = Join(os, docs, locked) THEN LockedNode(<<9>>)
                   ELSE FileNode(<<1, 2>>)]

\* the CompressRequest bodies naming docs, f.txt and a path that is missing
FailRequests ==
    [Files : UNION {[1..k -> {Docs \o <<"/">>, FTxt, <<"m", "i", "s", "s">>}] : k \in 1..MaxRoots},
     Output : {<<>>, <<"i", "n">>}]

\* n times the character c
Repeat(c, n) == [i \in 1..n |-> c]

\* output directories a request may ask for: none, dots, paths with
\* separators and drive letters, spaces, names longer than the limit
OddDirs ==
    {<<>>, OutName, <<".">>, <<".", ".">>, <<".", ".", ".">>, <<"/">>, <<BS>>,
     <<".", ".", "/", "x">>, <<".", ".", BS, "x">>, <<"a", "/", ".", ".">>,
     <<"/", "e", "t", "c">>, <<"C", ":">>, <<"C", ":", BS, "x">>,
     <<" ", ".", " ">>, <<"a", ".">>,
     Repeat("a", DirNameLimit + 1),
     Repeat("a", DirNameLimit - 1) \o <<".", ".", "/", ".", ".">>,
     Repeat(".", DirNameLimit) \o <<".", ".">>,
     Repeat("/", DirNameLimit + 1)}

\* archive names a request may give: the archive on disk, and names of no
\* archive that are dots, separators, drive letters or long
OddArchives ==
    {ArchiveName, <<".">>, <<".", ".">>, <<"/">>, <<"a", "/", ".", ".">>,
     <<".", "z", "s", "t">>, <<".", ".", ".", "z", "s", "t">>,
     <<".", ".", "/", ".", ".", "/", "x", ".", "z", "s", "t">>,
     <<"C", ":">>, <<"C", ":", BS>>, <<"C", ":", BS, "x", ".", "z", "s", "t">>,
     Repeat("a", DirNameLimit + 1) \o <<".", "z", "s", "t">>,
     Repeat(".", DirNameLimit + 1)}

DirRequests == [Archive : OddArchives, OutputDir : OddDirs]

\* the archives behind those requests
DirArchives ==
    {<<>>, <<Entry(<<"a">>, TypeReg, <<1, 2>>)>>,
     <<Entry(<<"d">>, TypeDir, <<>>), Entry(<<"d", "/", "a">>, TypeReg, <<4, 5>>)>>}

\* the entries of the damaged and the conflicting archives: a file and a
\* path below it, a directory and a file of its name, a header that cannot
\* be read, a file and a payload of its name the stream ends in, a
\* rejected entry
FaultyEntries ==
    {Entry(<<"a">>, TypeReg, <<1, 2>>),
     Entry(<<"a", "/", "b">>, TypeReg, <<3>>),
     Entry(<<"d">>, TypeDir, <<>>),
     Entry(<<"d">>, TypeReg, <<4>>),
     Entry(<<"a">>, TypeDir, <<>>),
     Entry(<<".", ".", "/", "a">>, TypeReg, <<6>>),
     Entry(<<"c">>, TypeReg, <<7, 8>>),
     CutEntry(<<"c">>, <<5>>),
     BadHeader}

\* nothing can be read behind the place where the stream ends
FaultyArchives ==
    {a \in UNION {[1..k -> FaultyEntries] : k \in 1..MaxEntries} :
        \A i \in DOMAIN a : a[i].cut => (i = Len(a) \/ a[i + 1] = BadHeader)}

\* the entries of the archives extracted several times over
RepeatedEntries ==
    {Entry(<<"a">>, TypeReg, <<1, 2>>),
     Entry(<<"a">>, TypeReg, <<3>>),
     Entry(<<"d">>, TypeDir, <<>>),
     Entry(<<"d", "/", "a">>, TypeReg, <<4, 5>>),
     Entry(<<".", ".", "/", "a">>, TypeReg, <<6, 7>>)}

RepeatedArchives == UNION {[1..k -> RepeatedEntries] : k \in 0..MaxEntries}

NotPacked == [files |-> <<>>, ok |-> FALSE]

\* the state every behaviour starts in, the disk and the archives aside
InitIdle(requests) ==
    /\ pc = "idle"
    /\ archiveFile = <<>>
    /\ fullOutputDir = <<>>
    /\ tarReader = <<>>
    /\ fileCount = 0
    /\ resp = NoResp
    /\ touched = {}
    /\ outcomes = <<>>
    /\ runs = <<>>
    /\ budget = requests
    /\ outputFile = <<>>
    /\ pending = <<>>
    /\ totalSize = 0
    /\ opened = {}
    /\ visited = <<>>
    /\ packed = NotPacked

\* no header name waits outside a walk
NoNames == headerNames = <<>> /\ storedNames = <<>>

InitWith(archiveSet, requests) ==
    /\ goos \in GOOS
    /\ NoNames
    /\ \E a \in archiveSet, prior \in Priors :
          /\ Len(a) = 1 /\ a[1].name \notin ListedNames => prior = "none"
          /\ archives = (ArchiveName :> a)
          /\ fs = InitialDisk(goos, prior)
    /\ InitIdle(requests)
    /\ packBudget = 0

\* one request for a foreign archive
Init == InitWith(ForeignArchives, 1)

\* several requests for the same archive, one after the other
InitTwice == InitWith(RepeatedArchives, MaxRuns)

\* one request with an archive name and an output directory of any form
InitDirs == InitWith(DirArchives, 1)

\* one request for an archive that is damaged or whose entries conflict
InitFaulty == InitWith(FaultyArchives, 1)


\* a source tree and no archive yet: one compress request and one
\* decompress request
InitPack ==
    /\ goos \in GOOS
    /\ \E leaf \in LeafNames(goos) : fs = SourceDisk(goos, leaf)
    /\ archives = <<>>
    /\ InitIdle(1)
    /\ packBudget = 1
    /\ NoNames

\* a source tree in which a file may be locked, and one compress request
InitPackFail ==
    /\ goos \in GOOS
    /\ \E locked \in DocFiles \cup {<<>>} : fs = LockedDisk(goos, locked)
    /\ archives = <<>>
    /\ InitIdle(0)
    /\ packBudget = 1
    /\ NoNames

\* one path on its way into a header, and no request
InitTarPath ==
    /\ goos \in GOOS
    /\ fs = InitialDisk(goos, "none")
    /\ archives = <<>>
    /\ InitIdle(0)
    /\ packBudget = 0
    /\ \E path \in TarPaths : headerNames = <<path>>
    /\ storedNames = <<>>

Next ==
    \/ \E req \in Requests : DecompressBegin(req)
    \/ ExtractEntry
    \/ DecompressEnd

Spec == Init /\ [][Next]_vars

SpecTwice == InitTwice /\ [][Next]_vars

SpecFaulty == InitFaulty /\ [][Next]_vars

NextDirs ==
    \/ \E req \in DirRequests : DecompressBegin(req)
    \/ ExtractEntry
    \/ DecompressEnd

SpecDirs == InitDirs /\ [][NextDirs]_vars


NextPack ==
    \/ \E req \in CompressRequests : CompressBegin(req)
    \/ AddEntry
    \/ CompressEnd
    \/ \E req \in Requests : DecompressBegin(req)
    \/ ExtractEntry
    \/ DecompressEnd

SpecPack == InitPack /\ [][NextPack]_vars

NextPackFail ==
    \/ \E req \in FailRequests : CompressBegin(req)
    \/ AddEntry
    \/ CompressEnd

SpecPackFail == InitPackFail /\ [][NextPackFail]_vars

NextTarPath == SanitizeHeader

SpecTarPath == InitTarPath /\ [][NextTarPath]_vars

\* ------------------------------------------------------------------------
\* properties
\* ------------------------------------------------------------------------

\* the archive the requests name, and the call that finished last
TheArchive == archives[ArchiveName]
LastRun == runs[Len(runs)]
Finished == pc = "idle" /\ runs # <<>> /\ LastRun.archive = ArchiveName
Succeeded == Finished /\ LastRun.success
OneEntry(name) == Len(TheArchive) = 1 /\ TheArchive[1].name = name

\* the destination root's content after the call that finished last
Extracted == Tree(goos, fs, fullOutputDir)
ExtractedFiles == {t \in Extracted : t[2] = "file"}

\* a stored path written with '/' in the host's form
Host(name) == FromSlash(goos, name)

\* C1: every file and directory an extraction creates or writes for an
\* entry lies below the destination root, whatever the stored paths are.
C1_Contained ==
    \A p \in touched : HasPrefix(p, fullOutputDir \o <<Separator(goos)>>)

\* an entry stored under an absolute path was extracted, below the root
C1_Witness ==
    Succeeded /\ OneEntry(AbsolutePasswd) /\ touched # {}

\* C2 as stated: the two traversal paths and the absolute path /etc/passwd
\* are all skipped, leave nothing on disk and are not counted.
C2_AllSkipped ==
    (Succeeded /\ \E n \in {TraversalUnix, TraversalBackslash, AbsolutePasswd} : OneEntry(n))
        => touched = {} /\ resp.count = 0

\* C2 amended: the traversal paths are skipped, leave nothing on disk and
\* are not counted; /etc/passwd is not skipped: its leading separator is
\* stripped, it is extracted to <root>/etc/passwd and counted.
C2_Amended ==
    /\ (Finished /\ \E n \in {TraversalUnix, TraversalBackslash} : OneEntry(n))
          => (LastRun.success /\ touched = {} /\ resp.count = 0 /\ Extracted = {})
    /\ (Finished /\ OneEntry(AbsolutePasswd))
          => /\ LastRun.success /\ resp.count = 1
             /\ Extracted = {<<<<"e", "t", "c">>, "dir", <<>>>>,
                             <<<<"e", "t", "c">> \o <<Separator(goos)>>
                                   \o <<"p", "a", "s", "s", "w", "d">>, "file", <<1>>>>}

\* the backslash traversal entry was read and skipped
C2_Witness ==
    Succeeded /\ OneEntry(TraversalBackslash) /\ outcomes = <<"skipped">>

\* the call that unpacked the archive the last compress request wrote
Unpacked ==
    /\ pc = "idle" /\ packed.ok
    /\ runs # <<>> /\ LastRun.archive = outputFile /\ LastRun.success

\* a source root's relative structure: the root under its base name and
\* what lies below it, with kinds and contents
SourceTree(root) ==
    LET r == Resolve(goos, root)
    IN  {<<Base(goos, root) \o SubSeq(p, Len(r) + 1, Len(p)), fs[p].kind, fs[p].data>> :
            p \in {q \in DOMAIN fs : q = r \/ Below(goos, r, q)}}

\* C3 as stated: unpacking what a compress request packed yields exactly
\* the relative structure of its source roots, each under its base name,
\* with the same contents.
C3_RoundTrip ==
    Unpacked =>
        LastRun.tree = UNION {SourceTree(packed.files[i]) : i \in DOMAIN packed.files}

\* the container path C4 states for an object met in the walk of a root
StatedName(item) ==
    IF fs[Resolve(goos, item.root)].kind = "dir" /\ item.path # item.root
    THEN ToSlash(goos, Join(goos, Base(goos, item.root),
                            Rel(goos, item.root, item.path)))
    ELSE Base(goos, item.root)

\* C4 as stated: every object the walk visits is stored as
\* <base name of the root>/<path relative to the root>, a root itself as
\* its base name, whatever precedes the root in the path given (compared
\* after the outbound sanitizer, a directory's trailing '/' aside).
C4_StoredPaths ==
    \A i \in DOMAIN visited :
        TrimRight(archives[outputFile][i].name, {"/"})
            = sanitizeTarPath(StatedName(visited[i]))

\* C5 as stated: when several Regular entries have the same stored path,
\* the file holds exactly the payload of the last of them.
C5_LastWins ==
    Succeeded =>
        \A i, j \in DOMAIN TheArchive :
            (/\ i < j
             /\ TheArchive[i].name = TheArchive[j].name
             /\ \A k \in DOMAIN TheArchive :
                   TheArchive[k].name = TheArchive[j].name
                       => TheArchive[k].typeflag = TypeReg /\ k <= j
             /\ outcomes[j] = "file")
            => fs[Join(goos, fullOutputDir, Host(TheArchive[j].name))].data
                   = TheArchive[j].data

\* the entries the loop body skips
Rejected(e) ==
    \/ sanitizeExtractPath(goos, e.name) = <<>>
    \/ ~HasPrefix(Join(goos, fullOutputDir, sanitizeExtractPath(goos, e.name)),
                  fullOutputDir \o <<Separator(goos)>>)

\* the target of an entry that is not rejected, relative to the root
RelTarget(e) ==
    LET t == Join(goos, fullOutputDir, sanitizeExtractPath(goos, e.name))
    IN  SubSeq(t, Len(fullOutputDir) + 2, Len(t))

ValidEntries == {i \in DOMAIN TheArchive : ~Rejected(TheArchive[i])}

\* rejected entries mixed with Regular entries that name distinct files of
\* one tree (no two the same file, none below another)
MixedArchive ==
    /\ \E i \in DOMAIN TheArchive : Rejected(TheArchive[i])
    /\ \A i \in ValidEntries : TheArchive[i].typeflag = TypeReg
    /\ \A i, j \in ValidEntries :
          i # j => /\ RelTarget(TheArchive[i]) # RelTarget(TheArchive[j])
                   /\ ~HasPrefix(RelTarget(TheArchive[j]),
                                 RelTarget(TheArchive[i]) \o <<Separator(goos)>>)

\* C6: rejected entries do not abort the extraction: the call succeeds,
\* the files below the root are exactly the valid entries with their own
\* payloads, and the count is their number.
C6_SkipDoesNotAbort ==
    (Finished /\ MixedArchive) =>
        /\ LastRun.success
        /\ resp.success
        /\ resp.count = Cardinality(ValidEntries)
        /\ ExtractedFiles =
              {<<RelTarget(TheArchive[i]), "file", TheArchive[i].data>> : i \in ValidEntries}

\* a rejected entry with a payload stood between two valid ones
C6_Witness ==
    /\ Succeeded /\ MixedArchive
    /\ Len(TheArchive) = 3 /\ Rejected(TheArchive[2]) /\ TheArchive[2].data # <<>>
    /\ resp.count = 2

C8_DriveStripped ==
    (Finished /\ OneEntry(DrivePath)) =>
        /\ LastRun.success
        /\ Extracted =
              {<<<<"W", "i", "n", "d", "o", "w", "s">>, "dir", <<>>>>,
               <<<<"W", "i", "n", "d", "o", "w", "s">> \o <<Separator(goos)>>
                     \o <<"x", ".", "t", "x", "t">>, "file", <<1>>>>}

PlainName(n) ==
    /\ Len(n) >= 1
    /\ \A i \in DOMAIN n : n[i] \notin {"/", BS, "."}
    /\ Len(n) >= 2 => n[2] # ":"

C10_NothingTouched ==
    [][\A req \in CompressRequests :
          (req.Files = <<>> /\ CompressBegin(req)) =>
              /\ resp' = FailResp("compress", "No files selected")
              /\ pc' = "idle"
              /\ UNCHANGED <<fs, archives, outputFile, pending, opened, visited, packed>>]_vars

\* the request with no source paths was answered
C10_Witness ==
    /\ pc = "idle" /\ packBudget = 0
    /\ resp.op = "compress" /\ resp.message = "No files selected"

\* C11: every path sanitizeTarPath returns is relative and in forward-slash
\* form: it does not start with a separator, holds no backslash, has no
\* drive-letter prefix and holds none of the characters < > : " | ? *.
C11_RelativeSlashForm ==
    \A i \in DOMAIN storedNames :
        LET name == storedNames[i].name
        IN  /\ name # <<>> => name[1] \notin {"/", BS}
            /\ \A k \in DOMAIN name : name[k] # BS /\ name[k] \notin InvalidChars
            /\ ~(Len(name) >= 2 /\ name[2] = ":")

\* the drive-letter path C:\a went into a header as a
C11_Witness ==
    /\ storedNames # <<>>
    /\ storedNames[1].given = <<"C", ":", BS, "a">>
    /\ storedNames[1].name = <<"a">>

\* the target of entry e below the destination root
Target(e) == Join(goos, fullOutputDir, sanitizeExtractPath(goos, e.name))

\* entry e meets a read or write error on the disk as it is: its header
\* cannot be read, or it is not rejected and a file stands where a
\* directory is needed, a directory stands where the file is to be
\* written, or the stream ends inside the payload
MeetsError(e) ==
    \/ e.typeflag = ErrHeader
    \/ /\ ~Rejected(e)
       /\ \/ \E q \in DOMAIN fs : fs[q].kind = "file" /\ Below(goos, q, Target(e))
          \/ e.typeflag = TypeDir /\ Exists(fs, Target(e)) /\ fs[Target(e)].kind = "file"
          \/ e.typeflag = TypeReg /\ Exists(fs, Target(e)) /\ fs[Target(e)].kind = "dir"
          \/ e.typeflag = TypeReg /\ e.cut

\* C12: an entry that meets a read or write error ends the call at once
\* with a failure carrying count 0 and no destination path; no later entry
\* is read, and nothing is rolled back: everything on disk before the entry
\* was read is still there, unchanged but for the bytes the failing entry
\* itself wrote to its target before its payload ended.
C12_ErrorEndsCall ==
    [][(pc = "extract" /\ tarReader # <<>> /\ MeetsError(Head(tarReader))) =>
          /\ pc' = "idle"
          /\ resp' = FailResp("decompress", "Decompression failed")
          /\ resp'.count = 0 /\ resp'.outputDir = <<>>
          /\ ~runs'[Len(runs')].success
          /\ tarReader' = Tail(tarReader)
          /\ fileCount' = fileCount
          /\ \A p \in DOMAIN fs :
                /\ p \in DOMAIN fs'
                /\ p # Target(Head(tarReader)) => fs'[p] = fs[p]]_vars

\* a file was extracted, the entry behind it met an error with another
\* entry still unread, and the file is on disk as it was written
C12_Witness ==
    /\ pc = "idle" /\ runs # <<>> /\ ~LastRun.success
    /\ outcomes = <<"file", "error">>
    /\ tarReader # <<>>
    /\ TheArchive[1] = Entry(<<"a">>, TypeReg, <<1, 2>>)
    /\ fs[Join(goos, fullOutputDir, <<"a">>)] = FileNode(<<1, 2>>)

\* the walk callback for item meets an I/O failure: the root cannot be
\* statted, or the file cannot be opened
FailsToAdd(item) ==
    \/ Resolve(goos, item.root) \notin DOMAIN fs
    \/ fs[Resolve(goos, item.path)].kind = "locked"

ChildOfCwd(root) ==
    /\ HasPrefix(root, Cwd(goos) \o <<Separator(goos)>>)
    /\ Len(root) > Len(Cwd(goos)) + 1
    /\ \A i \in (Len(Cwd(goos)) + 2)..Len(root) : ~IsPathSeparator(goos, root[i])
    /\ SubSeq(root, Len(Cwd(goos)) + 2, Len(root)) \notin {<<".">>, <<".", ".">>}
    /\ Dir(goos, root) = Cwd(goos)

\* C14: whatever the archive name and the output directory of a request,
\* the destination root decompressFile clears and creates is a direct child
\* of the working directory, and the working directory stays.
C14_RootIsChild ==
    /\ \A i \in DOMAIN runs : ChildOfCwd(runs[i].outputDir)
    /\ pc = "extract" => ChildOfCwd(fullOutputDir)
    /\ Exists(fs, Cwd(goos))
    /\ \A p \in DOMAIN fs : p = VolRoot(goos) \/ p = Cwd(goos) \/ Below(goos, Cwd(goos), p)

\* a request named the archive .. and no output directory: the root was
\* extracted_extracted in the working directory
C14_Witness ==
    /\ runs # <<>> /\ LastRun.archive = <<".", ".">>
    /\ LastRun.outputDir =
           Join(goos, Cwd(goos), <<"e", "x", "t", "r", "a", "c", "t", "e", "d", "_",
                                    "e", "x", "t", "r", "a", "c", "t", "e", "d">>)

\* a stored path that, its drive prefix and leading separators stripped,
\* holds two dots in a row
Dotted(name) == Contains(TrimLeft(StripDrive(name), {"/", BS}), <<".", ".">>)

\* C15: an entry whose stripped path holds two dots in a row anywhere,
\* also inside a file or directory name, is skipped: the call goes on and
\* succeeds, nothing is written for the entry and it is not counted.
C15_DotsRejected ==
    /\ \A i \in DOMAIN outcomes :
          (archiveFile = ArchiveName /\ Dotted(TheArchive[i].name)) => outcomes[i] = "skipped"
    /\ (Finished /\ Len(TheArchive) = 1 /\ Dotted(TheArchive[1].name)) =>
          /\ LastRun.success /\ resp.success /\ resp.count = 0
          /\ touched = {} /\ Extracted = {}

\* the entry a..b.txt was read and skipped
C15_Witness ==
    /\ Succeeded /\ OneEntry(DotsInName)
    /\ outcomes = <<"skipped">> /\ resp.count = 0

\* entry e passes the sanitizer and its joined, cleaned target is the
\* destination root itself
TargetsRoot(e) ==
    /\ sanitizeExtractPath(goos, e.name) # <<>>
    /\ Target(e) = fullOutputDir

\* C16: an entry that passes the sanitizer and whose target is the
\* destination root itself is skipped: the step that reads it leaves the
\* disk as it is, the root included, counts nothing and the loop goes on
\* with the next entry.
C16_RootNotATarget ==
    [][(pc = "extract" /\ tarReader # <<>> /\ TargetsRoot(Head(tarReader))) =>
          /\ fs' = fs
          /\ fileCount' = fileCount
          /\ touched' = touched
          /\ outcomes' = Append(outcomes, "skipped")
          /\ pc' = "extract"
          /\ tarReader' = Tail(tarReader)]_vars

\* the Regular entry ./ was skipped and the entry behind it extracted
C16_Witness ==
    /\ Succeeded /\ Len(TheArchive) = 2
    /\ TheArchive[1] = Entry(<<".", "/">>, TypeReg, <<8>>)
    /\ outcomes = <<"skipped", "file">>
    /\ resp.count = 1
    /\ fs[fullOutputDir] = DirNode

=============================================================================
